---- MODULE Spec2Model ----
(***************************************************************************)
(* RouteOptimizationService (backend/app/services/routing_service.py).     *)
(*                                                                         *)
(* One service object with its four instance fields, and callers that run  *)
(* optimize_routes on it.  A call is a frame (its arguments and locals)    *)
(* that moves through the statements of optimize_routes, _solve_vrp and    *)
(* _build_route_details.                                                   *)
(*                                                                         *)
(* Units.  Latitudes are whole tenths of a degree on one meridian, so the  *)
(* haversine distance of two points is R * |dlat| = 6.9098 miles per       *)
(* tenth.  Distances returned by _calculate_distance are kept in 1/10000   *)
(* mile, matrix entries in whole miles (int()), clock times in seconds,    *)
(* estimated_time in tenths of a minute (round(x, 1)), estimated_cost in   *)
(* cents (round(x, 2)), efficiency scores in tenths (round(x, 1)).         *)
(***************************************************************************)
EXTENDS Integers, Sequences, FiniteSets, TLC

VARIABLES
    vehicle_capacity,       \* self.vehicle_capacity
    max_route_time,         \* self.max_route_time
    average_speed,          \* self.average_speed
    service_time_per_stop,  \* self.service_time_per_stop
    call,                   \* call[t]: the frame of caller t's optimize_routes call
    safety_stock_multiplier, \* optimization_service.safety_stock_multiplier, in hundredths
    stock_response          \* the response to the latest stock request

vars == <<vehicle_capacity, max_route_time, average_speed, service_time_per_stop, call,
          safety_stock_multiplier, stock_response>>

(***************************************************************************)
(* Bounds of the model.                                                    *)
(***************************************************************************)
MaxPoints == 2      \* longest delivery_points list a caller passes

Callers == {1, 2}   \* callers sharing the service

(***************************************************************************)
(* Program constants.                                                      *)
(***************************************************************************)
DefaultCapacity == 1000
DefaultMaxRouteTime == 480
DefaultSpeed == 50
DefaultServiceTime == 15
MilesPerTenthDegree == 69098    \* R * pi / 180 / 10 with R = 3959, in 1/10000 mile
IdealDistance == 10
CentsPerMile == 250

(***************************************************************************)
(* Values a caller can pass.                                               *)
(***************************************************************************)
NoKey == 0 - 1         \* a dict key that is absent
Missing == 0 - 1000    \* a location dict without the coordinate key
NaN == 0 - 2000        \* float('nan')
Inf == 0 - 3000        \* float('inf')
NoneVC ==
    [capacity |-> NoKey, max_time |-> NoKey, speed |-> NoKey, service_time |-> NoKey,
     none |-> TRUE]

Lats == {0, 1, 5}      \* latitudes, in tenths of a degree
Demands == {10, 2000}
CapacityChoices == {20}
MaxTimeChoices == {10}
SpeedChoices == {25}
ServiceTimeChoices == {30}

Abs(x) == IF x < 0 THEN 0 - x ELSE x
Min(a, b) == IF a <= b THEN a ELSE b
Max(a, b) == IF a >= b THEN a ELSE b
Range(s) == {s[k] : k \in DOMAIN s}

RECURSIVE SumSeq(_)
SumSeq(s) == IF s = <<>> THEN 0 ELSE Head(s) + SumSeq(Tail(s))

\* round(a / b) for a >= 0, b > 0
RoundDiv(a, b) == (2 * a + b) \div (2 * b)

(***************************************************************************)
(* Python dict access.                                                     *)
(***************************************************************************)
\* vehicle_constraints.get(key, default), by field
Get(v, default) == IF v = NoKey THEN default ELSE v

\* `if vehicle_constraints:` -- None and the empty dict are both false
Truthy(vc) ==
    /\ ~vc.none
    /\ \/ vc.capacity # NoKey
       \/ vc.max_time # NoKey
       \/ vc.speed # NoKey
       \/ vc.service_time # NoKey

(***************************************************************************)
(* _calculate_distance: haversine on one meridian, in 1/10000 mile.  With  *)
(* a coordinate that is not finite: math.sin and math.cos raise ValueError *)
(* on an infinite argument, which the function's own except turns into     *)
(* 0.0; a NaN argument raises nothing and the result is NaN.  The terms    *)
(* are evaluated in the order sin(dlat / 2), cos(lat1), cos(lat2),         *)
(* sin(dlng / 2), so an infinite latitude always raises, and an infinite   *)
(* longitude raises when the other longitude is finite (inf - inf is NaN). *)
(***************************************************************************)
MathDomainError(lat1, lng1, lat2, lng2) ==
    \/ lat1 = Inf
    \/ lat2 = Inf
    \/ lng1 = Inf /\ lng2 \notin {Inf, NaN}
    \/ lng2 = Inf /\ lng1 \notin {Inf, NaN}

_calculate_distance(lat1, lng1, lat2, lng2) ==
    IF MathDomainError(lat1, lng1, lat2, lng2) THEN 0
    ELSE IF NaN \in {lat1, lng1, lat2, lng2} \/ (lng1 = Inf /\ lng2 = Inf) THEN NaN
    ELSE MilesPerTenthDegree * Abs(lat2 - lat1)

\* int(distance), for a distance that is not NaN
IntOf(distance) == distance \div 10000

(***************************************************************************)
(* _create_distance_matrix.  locations is a function on 0..n, n >= 1.  The *)
(* pairs i # j are visited row by row; a pair reads locations[i]['lat'],   *)
(* locations[i]['lng'], locations[j]['lat'], locations[j]['lng'] (an       *)
(* absent key raises KeyError) and converts the distance with int() (NaN   *)
(* raises ValueError).  The first exception is logged and re-raised.       *)
(***************************************************************************)
HasKeys(loc) == loc.lat # Missing /\ loc.lng # Missing

\* str() of the exception the pair (i, j) raises, "" when it raises none
PairError(locations, i, j) ==
    IF locations[i].lat = Missing THEN "'lat'"
    ELSE IF locations[i].lng = Missing THEN "'lng'"
    ELSE IF locations[j].lat = Missing THEN "'lat'"
    ELSE IF locations[j].lng = Missing THEN "'lng'"
    ELSE IF _calculate_distance(locations[i].lat, locations[i].lng,
                                locations[j].lat, locations[j].lng) = NaN
         THEN "cannot convert float NaN to integer"
    ELSE ""

Pairs(locations) == {q \in (DOMAIN locations) \X (DOMAIN locations) : q[1] # q[2]}

MatrixRaises(locations) ==
    \E q \in Pairs(locations) : PairError(locations, q[1], q[2]) # ""

\* the first pair, row by row, that raises
FirstBad(locations) ==
    LET rank(q) == q[1] * Cardinality(DOMAIN locations) + q[2]
    IN  CHOOSE q \in Pairs(locations) :
            /\ PairError(locations, q[1], q[2]) # ""
            /\ \A r \in Pairs(locations) :
                   rank(r) < rank(q) => PairError(locations, r[1], r[2]) = ""

\* str(e) of the exception _create_distance_matrix raises
MatrixError(locations) ==
    LET q == FirstBad(locations)
    IN  PairError(locations, q[1], q[2])

\* _create_distance_matrix counting at least one mile between two nodes
DistanceMatrixAtLeastOne(locations) ==
    [i \in DOMAIN locations |->
        [j \in DOMAIN locations |->
            IF i # j
            THEN 1 + IntOf(_calculate_distance(locations[i].lat, locations[i].lng,
                                               locations[j].lat, locations[j].lng))
            ELSE 0]]

\* _create_distance_matrix filling only the entries above the diagonal
DistanceMatrixUpperOnly(locations) ==
    [i \in DOMAIN locations |->
        [j \in DOMAIN locations |->
            IF i < j
            THEN IntOf(_calculate_distance(locations[i].lat, locations[i].lng,
                                           locations[j].lat, locations[j].lng))
            ELSE 0]]

_create_distance_matrix(locations) ==
    [i \in DOMAIN locations |->
        [j \in DOMAIN locations |->
            IF i # j
            THEN IntOf(_calculate_distance(locations[i].lat, locations[i].lng,
                                           locations[j].lat, locations[j].lng))
            ELSE 0]]

\* locations = [warehouse_data] + delivery_points, indexed from 0
Locations(warehouse_data, delivery_points) ==
    [k \in 0..Len(delivery_points) |->
        IF k = 0 THEN [lat |-> warehouse_data.lat, lng |-> warehouse_data.lng]
        ELSE [lat |-> delivery_points[k].lat, lng |-> delivery_points[k].lng]]

\* demands = [0] + [point.get('demand_qty', 0) ...], indexed from 0
DemandArray(delivery_points) ==
    [k \in 0..Len(delivery_points) |->
        IF k = 0 THEN 0 ELSE delivery_points[k].demand_qty]

(***************************************************************************)
(* The routing model _solve_vrp builds (manager, routing).  One vehicle,   *)
(* depot node 0.  Indices: 0 is the vehicle's start, 1..n the delivery     *)
(* nodes, n + 1 the vehicle's end; both 0 and n + 1 map to node 0.         *)
(***************************************************************************)
IndexToNode(index, n) == IF index = n + 1 THEN 0 ELSE index
IsEnd(index, n) == index = n + 1

\* routing.AddDimension / AddDimensionWithVehicleCapacity: a dimension whose
\* name is already registered is not added (the call returns False)
AddDimension(dims, transit, capacity, name) ==
    IF \E k \in DOMAIN dims : dims[k].name = name
    THEN dims
    ELSE Append(dims, [name |-> name, transit |-> transit, capacity |-> capacity])

\* the registrations with the demand callback as the transit of 'Capacity'
BuildDimensionsByDemand(capacity, max_time) ==
    LET d1 == AddDimension(<<>>, "demand", capacity, "Capacity")
        d2 == AddDimension(d1, "distance", max_time, "Time")
    IN  d2

\* the four dimension registrations of _solve_vrp, with the capacity and the
\* maximum route time read from the service
BuildDimensions(capacity, max_time) ==
    LET d1 == AddDimension(<<>>, "distance", capacity, "Capacity")
        d2 == AddDimension(d1, "distance", max_time, "Time")
        d3 == AddDimension(d2, "distance", capacity, "Demand")
        d4 == AddDimension(d3, "demand", capacity, "Demand")
    IN  d4

\* orders in which one vehicle can visit all n delivery nodes
Tours(n) == {p \in [1..n -> 1..n] : \A a, b \in 1..n : a # b => p[a] # p[b]}

\* node sequence of a tour: depot, the deliveries, depot
TourNodes(p, n) == [k \in 1..(n + 2) |-> IF k = 1 \/ k = n + 2 THEN 0 ELSE p[k - 1]]

\* sum of distance_callback over the arcs of the tour
TourDistance(p, n, distance_matrix) ==
    LET nodes == TourNodes(p, n)
    IN  SumSeq([k \in 1..(n + 1) |-> distance_matrix[nodes[k]][nodes[k + 1]]])

\* sum of demand_callback(from) over the arcs of the tour
TourDemand(p, n, demands) ==
    LET nodes == TourNodes(p, n)
    IN  SumSeq([k \in 1..(n + 1) |-> demands[nodes[k]]])

\* the cumul of a dimension at the end of the tour stays within its capacity
\* (slack 0, cumuls in 0..capacity, non-negative transits)
DimensionHolds(dim, p, n, distance_matrix, demands) ==
    IF dim.transit = "distance"
    THEN TourDistance(p, n, distance_matrix) <= dim.capacity
    ELSE TourDemand(p, n, demands) <= dim.capacity

\* the assignments routing.SolveWithParameters can return: every node is
\* mandatory (no disjunction is added), every dimension is respected.  Which
\* of them the search returns is not determined here; on instances of this
\* size the search is taken to find one whenever one exists.
FeasibleTours(routing, distance_matrix, demands) ==
    {p \in Tours(routing.n) :
        \A k \in DOMAIN routing.dims :
            DimensionHolds(routing.dims[k], p, routing.n, distance_matrix, demands)}

\* NextVar with the last delivery node linked back to the first one
NextVarCycle(p, n) ==
    [index \in 0..n |->
        IF n = 0 THEN n + 1
        ELSE IF index = 0 THEN p[1]
        ELSE LET k == CHOOSE k \in 1..n : p[k] = index
             IN  IF k = n THEN p[1] ELSE p[k + 1]]

\* solution.Value(routing.NextVar(index)) for the tour p
NextVar(p, n) ==
    [index \in 0..n |->
        IF n = 0 THEN n + 1
        ELSE IF index = 0 THEN p[1]
        ELSE LET k == CHOOSE k \in 1..n : p[k] = index
             IN  IF k = n THEN n + 1 ELSE p[k + 1]]

(***************************************************************************)
(* _build_route_details: one stop of a route.                              *)
(***************************************************************************)
\* MakeStop with the delivery point taken at route_idx instead of node_idx - 1
MakeStopByRoute(route_idx, i, node_idx, warehouse_data, delivery_points, current_time) ==
    IF node_idx = 0
    THEN [stop_id |-> <<"WH", route_idx>>,
          client_id |-> warehouse_data.warehouse_id,
          lat |-> warehouse_data.lat,
          lng |-> warehouse_data.lng,
          demand_qty |-> 0,
          estimated_arrival |-> current_time,
          order |-> i,
          type |-> "warehouse"]
    ELSE [stop_id |-> <<"STOP", route_idx, i>>,
          client_id |-> delivery_points[route_idx + 1].client_id,
          lat |-> delivery_points[route_idx + 1].lat,
          lng |-> delivery_points[route_idx + 1].lng,
          demand_qty |-> delivery_points[route_idx + 1].demand_qty,
          estimated_arrival |-> current_time,
          order |-> i,
          type |-> "delivery"]

\* MakeStop with the node's index as the stop's order
MakeStopOrderByNode(route_idx, i, node_idx, warehouse_data, delivery_points, current_time) ==
    IF node_idx = 0
    THEN [stop_id |-> <<"WH", route_idx>>,
          client_id |-> warehouse_data.warehouse_id,
          lat |-> warehouse_data.lat,
          lng |-> warehouse_data.lng,
          demand_qty |-> 0,
          estimated_arrival |-> current_time,
          order |-> node_idx,
          type |-> "warehouse"]
    ELSE [stop_id |-> <<"STOP", route_idx, i>>,
          client_id |-> delivery_points[node_idx].client_id,
          lat |-> delivery_points[node_idx].lat,
          lng |-> delivery_points[node_idx].lng,
          demand_qty |-> delivery_points[node_idx].demand_qty,
          estimated_arrival |-> current_time,
          order |-> node_idx,
          type |-> "delivery"]

MakeStop(route_idx, i, node_idx, warehouse_data, delivery_points, current_time) ==
    IF node_idx = 0
    THEN [stop_id |-> <<"WH", route_idx>>,
          client_id |-> warehouse_data.warehouse_id,
          lat |-> warehouse_data.lat,
          lng |-> warehouse_data.lng,
          demand_qty |-> 0,
          estimated_arrival |-> current_time,
          order |-> i,
          type |-> "warehouse"]
    ELSE [stop_id |-> <<"STOP", route_idx, i>>,
          client_id |-> delivery_points[node_idx].client_id,
          lat |-> delivery_points[node_idx].lat,
          lng |-> delivery_points[node_idx].lng,
          demand_qty |-> delivery_points[node_idx].demand_qty,
          estimated_arrival |-> current_time,
          order |-> i,
          type |-> "delivery"]

\* timedelta(minutes=(distance / speed) * 60), in seconds
TravelSeconds(distance, speed) == (distance * 3600) \div speed

\* the service time taken as seconds: timedelta(seconds=service_time)
ServiceSecondsUnscaled(service_time) == service_time

\* timedelta(minutes=service_time), in seconds
ServiceSeconds(service_time) == service_time * 60

(***************************************************************************)
(* _calculate_route_efficiency, in tenths of a point.                      *)
(***************************************************************************)
\* the spacing bonus: std < 0.3 * avg gives 10, std < 0.5 * avg gives 5.
\* Both sides scale with the distances, so the test is made on the
\* distances in tenths of a degree; with S the sum and Q the sum of squares
\* of k distances, std < c * avg  <=>  k*Q - S*S < c*c * S*S.
SpacingBonus(stops) ==
    LET m == Len(stops)
        distances == [i \in 1..(m - 2) |->
            _calculate_distance(stops[i + 1].lat, stops[i + 1].lng,
                                stops[i + 2].lat, stops[i + 2].lng)
                \div MilesPerTenthDegree]
        k == m - 2
        S == SumSeq(distances)
        Q == SumSeq([i \in 1..k |-> distances[i] * distances[i]])
    IN  IF m <= 2 THEN 0
        ELSE IF 100 * (k * Q - S * S) < 9 * S * S THEN 100
        ELSE IF 4 * (k * Q - S * S) < S * S THEN 50
        ELSE 0

\* _calculate_route_efficiency taking a route of one delivery for an empty one
RouteEfficiencyGuardedLate(stops, total_distance) ==
    LET m == Len(stops)
        base == IF total_distance <= IdealDistance * (m - 1)
                THEN 1000
                ELSE Max(0, RoundDiv(Max(0, 1500 * (m - 1) - 50 * total_distance), m - 1))
    IN  IF m <= 3 THEN 0
        ELSE Min(1000, Max(0, base + SpacingBonus(stops)))

\* _calculate_route_efficiency without its final min / max
RouteEfficiencyUnclamped(stops, total_distance) ==
    LET m == Len(stops)
        base == IF total_distance <= IdealDistance * (m - 1)
                THEN 1000
                ELSE RoundDiv(Max(0, 1500 * (m - 1) - 50 * total_distance), m - 1)
    IN  IF m <= 1 THEN 0
        ELSE base + SpacingBonus(stops)

_calculate_route_efficiency(stops, total_distance) ==
    LET m == Len(stops)
        base == IF total_distance <= IdealDistance * (m - 1)
                THEN 1000
                ELSE Max(0, RoundDiv(Max(0, 1500 * (m - 1) - 50 * total_distance), m - 1))
    IN  IF m <= 1 THEN 0
        ELSE Min(1000, Max(0, base + SpacingBonus(stops)))

\* the route dict appended by _build_route_details, from the values of
\* self.average_speed and self.vehicle_capacity it reads
MakeRoute(route_idx, stops, total_distance, speed, capacity) ==
    LET total_demand == SumSeq([k \in 1..Len(stops) |-> stops[k].demand_qty])
    IN  [route_id |-> route_idx + 1,
         stops |-> stops,
         total_distance |-> total_distance,
         estimated_time |-> RoundDiv(total_distance * 600, speed),
         estimated_cost |-> total_distance * CentsPerMile,
         efficiency_score |-> _calculate_route_efficiency(stops, total_distance),
         num_stops |-> Len(stops) - 1,
         total_demand |-> total_demand,
         utilization |-> Min(10000, (total_demand * 10000) \div capacity)]

(***************************************************************************)
(* _calculate_efficiency_score, in tenths of a point.                      *)
(***************************************************************************)
\* _calculate_efficiency_score returning the weighted sum, not the mean
EfficiencyScoreUndivided(routes) ==
    SumSeq([k \in 1..Len(routes) |-> routes[k].efficiency_score * routes[k].num_stops])

_calculate_efficiency_score(routes) ==
    LET total_score == SumSeq([k \in 1..Len(routes) |->
                                  routes[k].efficiency_score * routes[k].num_stops])
        total_weight == SumSeq([k \in 1..Len(routes) |-> routes[k].num_stops])
    IN  IF routes = <<>> THEN 0
        ELSE IF total_weight > 0 THEN RoundDiv(total_score, total_weight)
        ELSE 0

(***************************************************************************)
(* Frames.                                                                 *)
(***************************************************************************)
NoLocation == [warehouse_id |-> 0, lat |-> 0, lng |-> 0]
NoResult == [status |-> "none"]
NoModel == [n |-> 0, dims |-> <<>>]

\* no field of the service read yet
NoFields == [vehicle_capacity |-> NoKey, max_route_time |-> NoKey,
             service_time_per_stop |-> NoKey]

IdleFrame ==
    [pc |-> "idle",
     warehouse_data |-> NoLocation,     \* arguments
     delivery_points |-> <<>>,
     vehicle_constraints |-> NoneVC,
     pre |-> <<>>,                      \* the service's fields when the call began
     built_with |-> NoFields,           \* the fields the call has read to solve
     distance_matrix |-> <<>>,          \* optimize_routes
     demands |-> <<>>,
     routing |-> NoModel,               \* _solve_vrp
     solution |-> <<>>,
     index |-> 0,
     route |-> <<>>,
     route_distance |-> 0,
     route_indices |-> <<>>,            \* _build_route_details
     route_idx |-> 0,
     i |-> 0,
     stops |-> <<>>,
     total_distance |-> 0,
     current_time |-> 0,
     routes |-> <<>>,
     stages |-> <<>>,                   \* the stages the call has gone through
     result |-> NoResult]

Service ==
    [vehicle_capacity |-> vehicle_capacity,
     max_route_time |-> max_route_time,
     average_speed |-> average_speed,
     service_time_per_stop |-> service_time_per_stop]

ServiceUnchanged ==
    UNCHANGED <<vehicle_capacity, max_route_time, average_speed, service_time_per_stop>>

\* the stock optimization service is another object: no routing step touches it
StockUnchanged == UNCHANGED <<safety_stock_multiplier, stock_response>>

SetFrame(t, f) == call' = [call EXCEPT ![t] = f] /\ StockUnchanged

\* the frame of a call that has returned `result`: its locals are gone
Returned(f, result) ==
    [IdleFrame EXCEPT
        !.pc = "done",
        !.warehouse_data = f.warehouse_data,
        !.delivery_points = f.delivery_points,
        !.vehicle_constraints = f.vehicle_constraints,
        !.pre = f.pre,
        !.built_with = f.built_with,
        !.stages = Append(f.stages, "Result"),
        !.result = result]

\* an error dict that drops the 'error' key
ErrorResultNoDiagnostic(message) == [status |-> "error"]

\* the error dicts of optimize_routes (lines 26-29, 70-73) and of _solve_vrp
\* (lines 231-234)
ErrorResult(message) == [status |-> "error", error |-> message]

\* optimize_routes without its empty check
EmptyProblemUnchecked(delivery_points) == FALSE

\* `if not delivery_points:`
EmptyProblem(delivery_points) == delivery_points = <<>>

\* the accounting stopping at the last delivery node
HasNextOneWay(i, route) == i < Len(route) - 2

\* `if i < len(route) - 1:` -- the node has a successor in the route
HasNext(i, route) == i < Len(route) - 1

\* the loop over the nodes stopping one node early
InLoopShort(i, route) == i < Len(route) - 1

\* `for i, node_idx in enumerate(route):` has an i-th node to visit
InLoop(i, route) == i < Len(route)

(***************************************************************************)
(* StockOptimizationService.__init__: the Z-score multiplier of the one    *)
(* optimization_service the stock endpoints share, in hundredths.          *)
(***************************************************************************)
DefaultSafetyStockMultiplier == 150

\* no demand statistics were computed
NoStats ==
    [mean_daily_demand |-> NoKey, std_daily_demand |-> NoKey,
     coefficient_of_variation |-> NoKey]

\* no stock request has been answered yet
NoResponse ==
    [endpoint |-> "", status_code |-> 0, detail |-> "", lead_time_days |-> NoKey,
     demand_statistics |-> NoStats, safety_stock |-> NoKey]

(***************************************************************************)
(* RouteOptimizationService.__init__ and the module-level services of      *)
(* routers/optimization.py                                                 *)
(***************************************************************************)
Init ==
    /\ vehicle_capacity = DefaultCapacity
    /\ max_route_time = DefaultMaxRouteTime
    /\ average_speed = DefaultSpeed
    /\ service_time_per_stop = DefaultServiceTime
    /\ call = [t \in Callers |-> IdleFrame]
    /\ safety_stock_multiplier = DefaultSafetyStockMultiplier
    /\ stock_response = NoResponse

(***************************************************************************)
(* A caller enters optimize_routes(warehouse_data, delivery_points,        *)
(* vehicle_constraints).                                                   *)
(***************************************************************************)
Invoke(t, warehouses, pointLists, constraints) ==
    /\ call[t].pc = "idle"
    /\ \E w \in warehouses, dp \in pointLists, vc \in constraints :
          SetFrame(t, [IdleFrame EXCEPT
              !.pc = "called",
              !.warehouse_data = w,
              !.delivery_points = dp,
              !.vehicle_constraints = vc,
              !.pre = Service])
    /\ ServiceUnchanged

(***************************************************************************)
(* optimize_routes, lines 25-35: the empty check, then the constraints     *)
(* are written to the service's fields.                                    *)
(***************************************************************************)
Begin(t) ==
    LET f == call[t]
        vc == f.vehicle_constraints
    IN  /\ f.pc = "called"
        /\ IF EmptyProblem(f.delivery_points)
           THEN /\ SetFrame(t, Returned(f, ErrorResult("No delivery points provided")))
                /\ ServiceUnchanged
           ELSE /\ SetFrame(t, [f EXCEPT !.pc = "matrix"])
                /\ IF Truthy(vc)
                   THEN /\ vehicle_capacity' = Get(vc.capacity, vehicle_capacity)
                        /\ max_route_time' = Get(vc.max_time, max_route_time)
                        /\ average_speed' = Get(vc.speed, average_speed)
                        /\ UNCHANGED service_time_per_stop
                   ELSE ServiceUnchanged

(***************************************************************************)
(* optimize_routes, lines 38-42: the distance matrix and the demands; a    *)
(* exception of _create_distance_matrix is caught at line 68.              *)
(***************************************************************************)
CreateMatrix(t) ==
    LET f == call[t]
        locations == Locations(f.warehouse_data, f.delivery_points)
    IN  /\ f.pc = "matrix"
        /\ IF MatrixRaises(locations)
           THEN SetFrame(t, Returned(f, ErrorResult(MatrixError(locations))))
           ELSE SetFrame(t, [f EXCEPT
                    !.pc = "model",
                    !.distance_matrix = _create_distance_matrix(locations),
                    !.demands = DemandArray(f.delivery_points),
                    !.stages = Append(@, "DistanceModelBuilt")])
        /\ ServiceUnchanged

(***************************************************************************)
(* _solve_vrp, lines 128-179: the routing model with its dimensions.       *)
(***************************************************************************)
BuildModel(t) ==
    LET f == call[t]
    IN  /\ f.pc = "model"
        /\ SetFrame(t, [f EXCEPT
               !.pc = "solve",
               !.routing = [n |-> Len(f.delivery_points),
                            dims |-> BuildDimensions(vehicle_capacity, max_route_time)],
               !.built_with = [@ EXCEPT !.vehicle_capacity = vehicle_capacity,
                                        !.max_route_time = max_route_time],
               !.stages = Append(@, "ProblemBuilt")])
        /\ ServiceUnchanged

(***************************************************************************)
(* _solve_vrp, lines 182-194 and 230-234: the solver returns an assignment *)
(* or None.                                                                *)
(***************************************************************************)
Solve(t) ==
    LET f == call[t]
        feasible == FeasibleTours(f.routing, f.distance_matrix, f.demands)
    IN  /\ f.pc = "solve"
        /\ IF feasible = {}
           THEN SetFrame(t, Returned([f EXCEPT !.stages = Append(@, "Solving")],
                                     ErrorResult("No solution found")))
           ELSE \E p \in feasible :
                    SetFrame(t, [f EXCEPT
                        !.pc = "extract",
                        !.solution = NextVar(p, f.routing.n),
                        !.index = 0,              \* routing.Start(0)
                        !.route = <<>>,
                        !.route_distance = 0,
                        !.stages = Append(@, "Solving")])
        /\ ServiceUnchanged

(***************************************************************************)
(* _solve_vrp, lines 204-211: one iteration of the while loop that follows *)
(* the solution from the vehicle's start.                                  *)
(***************************************************************************)
ExtractStep(t) ==
    LET f == call[t]
        n == f.routing.n
        next == f.solution[f.index]
    IN  /\ f.pc = "extract"
        /\ ~IsEnd(f.index, n)
        /\ SetFrame(t, [f EXCEPT
               !.route = Append(@, IndexToNode(f.index, n)),
               !.index = next,
               !.route_distance = @ + f.distance_matrix[IndexToNode(f.index, n)]
                                                        [IndexToNode(next, n)]])
        /\ ServiceUnchanged

(***************************************************************************)
(* _solve_vrp, lines 213-229: the end node is appended and the routes are  *)
(* returned; optimize_routes line 47 enters _build_route_details.          *)
(***************************************************************************)
ExtractEnd(t) ==
    LET f == call[t]
        n == f.routing.n
        route == Append(f.route, IndexToNode(f.index, n))
        routes == IF Len(route) > 1 THEN <<route>> ELSE <<>>
    IN  /\ f.pc = "extract"
        /\ IsEnd(f.index, n)
        /\ SetFrame(t, [f EXCEPT
               !.pc = "compose",
               !.route = route,
               !.route_indices = routes,
               !.solution = <<>>,
               !.index = 0,
               !.route_idx = 0,
               !.i = 0,
               !.stops = <<>>,
               !.total_distance = 0,
               !.current_time = 0,            \* datetime.now(), as the origin
               !.routes = <<>>])
        /\ ServiceUnchanged

(***************************************************************************)
(* _build_route_details, lines 257-298: one iteration of the loop over the *)
(* nodes of a route.  route[i] of the code is route[i + 1] here.  Every    *)
(* route of route_indices has more than one node (line 217), so the skip   *)
(* of line 249 is never taken.                                             *)
(***************************************************************************)
ComposeStep(t) ==
    LET f == call[t]
        route == f.route_indices[f.route_idx + 1]
        node_idx == route[f.i + 1]
        stop == MakeStop(f.route_idx, f.i, node_idx, f.warehouse_data,
                         f.delivery_points, f.current_time)
        more == HasNext(f.i, route)
        distance == f.distance_matrix[node_idx][route[f.i + 2]]
    IN  /\ f.pc = "compose"
        /\ f.route_idx < Len(f.route_indices)
        /\ InLoop(f.i, route)
        /\ SetFrame(t, [f EXCEPT
               !.stops = Append(@, stop),
               !.i = @ + 1,
               !.total_distance = IF more THEN @ + distance ELSE @,
               !.current_time =
                   IF more
                   THEN @ + TravelSeconds(distance, average_speed)
                          + ServiceSeconds(service_time_per_stop)
                   ELSE @,
               !.built_with = IF more
                              THEN [@ EXCEPT !.service_time_per_stop = service_time_per_stop]
                              ELSE @,
               !.stages = IF f.i = 0 THEN Append(@, "Composing") ELSE @])
        /\ ServiceUnchanged

(***************************************************************************)
(* _build_route_details, lines 300-316: the metrics and the score of the   *)
(* route just composed; the loop moves to the next route.                  *)
(***************************************************************************)
ScoreRoute(t) ==
    LET f == call[t]
        route == f.route_indices[f.route_idx + 1]
    IN  /\ f.pc = "compose"
        /\ f.route_idx < Len(f.route_indices)
        /\ ~InLoop(f.i, route)
        /\ SetFrame(t, [f EXCEPT
               !.routes = Append(@, MakeRoute(f.route_idx, f.stops, f.total_distance,
                                               average_speed, vehicle_capacity)),
               !.route_idx = @ + 1,
               !.i = 0,
               !.stops = <<>>,
               !.total_distance = 0,
               !.current_time = 0,
               !.stages = Append(@, "Scoring")])
        /\ ServiceUnchanged

(***************************************************************************)
(* optimize_routes, lines 53-64: the success result.                       *)
(***************************************************************************)
Finish(t) ==
    LET f == call[t]
        routes == f.routes
    IN  /\ f.pc = "compose"
        /\ f.route_idx = Len(f.route_indices)
        /\ SetFrame(t, Returned(f,
               [status |-> "success",
                warehouse_id |-> f.warehouse_data.warehouse_id,
                total_routes |-> Len(routes),
                total_distance |-> SumSeq([k \in 1..Len(routes) |-> routes[k].total_distance]),
                total_time |-> SumSeq([k \in 1..Len(routes) |-> routes[k].estimated_time]),
                total_cost |-> SumSeq([k \in 1..Len(routes) |-> routes[k].estimated_cost]),
                efficiency_score |-> _calculate_efficiency_score(routes),
                routes |-> routes,
                optimization_metrics |-> [solver_time |-> f.route_distance,
                                          num_routes |-> Len(f.route_indices)]]))
        /\ ServiceUnchanged

\* the caller takes the result; it may call again
Collect(t) ==
    /\ call[t].pc = "done"
    /\ SetFrame(t, IdleFrame)
    /\ ServiceUnchanged

(***************************************************************************)
(* AIIntegrationService.optimize_real_routes, lines 332-345: after its     *)
(* optimize_routes call has returned success, the wrapper reads the        *)
(* routing service's fields into the result's constraints_applied.         *)
(***************************************************************************)
AwaitsEnhancement(t) ==
    /\ call[t].pc = "done"
    /\ call[t].result.status = "success"
    /\ "ai_enhancement" \notin DOMAIN call[t].result

Enhance(t) ==
    LET f == call[t]
        ai_enhancement ==
            [constraints_applied |->
                [vehicle_capacity |-> vehicle_capacity,
                 max_route_time |-> max_route_time,
                 service_time_per_stop |-> service_time_per_stop]]
    IN  /\ AwaitsEnhancement(t)
        /\ SetFrame(t, [f EXCEPT !.result =
               [k \in DOMAIN f.result \cup {"ai_enhancement"} |->
                   IF k = "ai_enhancement" THEN ai_enhancement ELSE f.result[k]]])
        /\ ServiceUnchanged

Step(t) ==
    \/ Begin(t)
    \/ CreateMatrix(t)
    \/ BuildModel(t)
    \/ Solve(t)
    \/ ExtractStep(t)
    \/ ExtractEnd(t)
    \/ ComposeStep(t)
    \/ ScoreRoute(t)
    \/ Finish(t)
    \/ Collect(t)

(***************************************************************************)
(* Arguments.                                                              *)
(***************************************************************************)
\* the depot: its latitude may be absent, NaN or infinite, its longitude absent
Warehouses == [warehouse_id : {0}, lat : Lats \cup {Missing, NaN, Inf}, lng : {0, Missing}]

\* delivery points; the k-th point of a list has client_id k
PointLists(lats, maxLen) ==
    UNION {{[k \in 1..n |-> [client_id |-> k, lat |-> l[k], lng |-> 0, demand_qty |-> d[k]]] :
               l \in [1..n -> lats], d \in [1..n -> Demands]} : n \in 0..maxLen}

\* None, the dicts over the keys optimize_routes reads, and the dicts of the
\* schema's fourth field 'service_time', alone and with the other three
Constraints ==
    {NoneVC} \cup
    [capacity : CapacityChoices \cup {NoKey},
     max_time : MaxTimeChoices \cup {NoKey},
     speed : SpeedChoices \cup {NoKey},
     service_time : {NoKey},
     none : {FALSE}] \cup
    [capacity : {NoKey}, max_time : {NoKey}, speed : {NoKey},
     service_time : ServiceTimeChoices, none : {FALSE}] \cup
    [capacity : {DefaultCapacity}, max_time : {DefaultMaxRouteTime}, speed : {DefaultSpeed},
     service_time : ServiceTimeChoices, none : {FALSE}]

(***************************************************************************)
(* Spec: one caller, one call after the other.                             *)
(***************************************************************************)
Next ==
    \/ Invoke(1, Warehouses, PointLists(Lats, MaxPoints), Constraints)
    \/ Step(1)

Spec == Init /\ [][Next]_vars

(***************************************************************************)
(* Properties of the results.                                              *)
(***************************************************************************)
Done(t) == call[t].pc = "done"
Succeeded(t) == Done(t) /\ call[t].result.status = "success"

\* the delivery stops of a success result, as <<route, position>> pairs
DeliveryStops(result) ==
    {rs \in UNION {{<<r, k>> : k \in 1..Len(result.routes[r].stops)} :
                     r \in 1..Len(result.routes)} :
        result.routes[rs[1]].stops[rs[2]].type = "delivery"}

StopsOfPoint(result, delivery_points, k) ==
    {rs \in DeliveryStops(result) :
        LET stop == result.routes[rs[1]].stops[rs[2]]
        IN  /\ stop.client_id = delivery_points[k].client_id
            /\ stop.lat = delivery_points[k].lat
            /\ stop.demand_qty = delivery_points[k].demand_qty}

\* C1: in every success result each input delivery point is a delivery stop
\* exactly once across all routes, and there is no other delivery stop.
C1_EachPointOnce ==
    \A t \in Callers :
        Succeeded(t) =>
            LET f == call[t]
                n == Len(f.delivery_points)
            IN  /\ \A k \in 1..n :
                      Cardinality(StopsOfPoint(f.result, f.delivery_points, k)) = 1
                /\ Cardinality(DeliveryStops(f.result)) = n

C1_Witness ==
    \E t \in Callers :
        /\ Succeeded(t)
        /\ Len(call[t].delivery_points) = MaxPoints
        /\ Len(call[t].result.routes) = 1

\* C2: in every success result the demand summed over a route's stops is at
\* most the vehicle capacity in force for the call.
C2_DemandWithinCapacity ==
    \A t \in Callers :
        Succeeded(t) =>
            \A r \in 1..Len(call[t].result.routes) :
                LET stops == call[t].result.routes[r].stops
                IN  SumSeq([k \in 1..Len(stops) |-> stops[k].demand_qty])
                        <= vehicle_capacity

\* C3: a call with a delivery point whose demand alone exceeds the vehicle
\* capacity never returns success (its status is to be infeasible).
C3_OversizedDemandNeverSuccess ==
    \A t \in Callers :
        (/\ Done(t)
         /\ \E k \in 1..Len(call[t].delivery_points) :
                call[t].delivery_points[k].demand_qty > vehicle_capacity)
            => /\ call[t].result.status # "success"
               /\ call[t].result.status \in {"infeasible", "error"}

DimensionCapacity(routing, name) ==
    LET k == CHOOSE k \in DOMAIN routing.dims : routing.dims[k].name = name
    IN  routing.dims[k].capacity

\* C4: a call made without vehicle_constraints builds its routing model with
\* capacity 1000 and maximum route time 480 and composes its routes with
\* speed 50, whatever calls came before it.
C4_DefaultsWithoutConstraints ==
    \A t \in Callers :
        call[t].vehicle_constraints.none =>
            /\ call[t].pc = "solve" =>
                  /\ DimensionCapacity(call[t].routing, "Capacity") = DefaultCapacity
                  /\ DimensionCapacity(call[t].routing, "Time") = DefaultMaxRouteTime
            /\ Succeeded(t) =>
                  \A r \in 1..Len(call[t].result.routes) :
                      LET route == call[t].result.routes[r]
                      IN  route.estimated_time =
                              RoundDiv(route.total_distance * 600, DefaultSpeed)

\* C6: a call that ends in an error leaves the service's fields as they were
\* when the call began.
C6_ErrorLeavesServiceUntouched ==
    \A t \in Callers :
        (Done(t) /\ call[t].result.status = "error") => Service = call[t].pre

\* C7: every result of optimize_routes has a status among success,
\* infeasible and error, and every result that is not a success carries a
\* diagnostic string.
C7_StatusAlways ==
    \A t \in Callers :
        Done(t) =>
            /\ "status" \in DOMAIN call[t].result
            /\ call[t].result.status \in {"success", "infeasible", "error"}
            /\ call[t].result.status # "success" =>
                  /\ "error" \in DOMAIN call[t].result
                  /\ call[t].result.error \in STRING
                  /\ call[t].result.error # ""

C7_Witness ==
    \E t \in Callers :
        /\ Done(t)
        /\ call[t].result.status = "error"
        /\ call[t].warehouse_data.lat = Missing

\* C8 as stated: an empty delivery_points list returns status error with
\* the diagnostic "no delivery points".
C8_EmptyDiagnosticAsStated ==
    \A t \in Callers :
        (Done(t) /\ call[t].delivery_points = <<>>) =>
            /\ call[t].result.status = "error"
            /\ call[t].result.error = "no delivery points"

\* C8 amended: an empty delivery_points list returns status error with the
\* diagnostic "No delivery points provided", and the call has gone through
\* no stage: no distance matrix, no routing model, no solver run, and the
\* service's fields are as they were.
C8_EmptyProblemImmediate ==
    \A t \in Callers :
        (Done(t) /\ call[t].delivery_points = <<>>) =>
            /\ call[t].result = [status |-> "error", error |-> "No delivery points provided"]
            /\ call[t].stages = <<"Result">>
            /\ Service = call[t].pre

C8_Witness ==
    \E t \in Callers :
        /\ Done(t)
        /\ call[t].delivery_points = <<>>
        /\ ~call[t].vehicle_constraints.none

(***************************************************************************)
(* The stages of a call.                                                   *)
(***************************************************************************)
Pipeline ==
    <<"DistanceModelBuilt", "ProblemBuilt", "Solving", "Composing", "Scoring", "Result">>

Rank(stage) == CHOOSE k \in 1..Len(Pipeline) : Pipeline[k] = stage

\* C9: a call goes through its stages in the order distance matrix, routing
\* model, solving, composing, scoring, result, none of them twice and none
\* before the one it follows; a route is scored only once all the stops of
\* all routes are composed; a call that does not return success has neither
\* composed nor scored.
C9_StageOrder ==
    \A t \in Callers :
        LET f == call[t]
            st == f.stages
        IN  /\ \A k \in 1..Len(st) :
                  IF st[k] = "Result"
                  THEN k = Len(st) /\ Done(t)
                  ELSE Rank(st[k]) = k
            /\ Done(t) => st[Len(st)] = "Result"
            /\ f.pc = "compose" =>
                  /\ \A r \in 1..Len(f.routes) :
                        Len(f.routes[r].stops) = Len(f.route_indices[r])
                  /\ "Scoring" \in Range(st) => f.route_idx = Len(f.route_indices)
            /\ Succeeded(t) =>
                  /\ st = Pipeline
                  /\ \A r \in 1..Len(f.result.routes) :
                        Len(f.result.routes[r].stops) = Len(f.delivery_points) + 2
            /\ (Done(t) /\ ~Succeeded(t)) =>
                  /\ "Composing" \notin Range(st)
                  /\ "Scoring" \notin Range(st)

C9_Witness ==
    \E t \in Callers :
        /\ Done(t)
        /\ call[t].stages = Pipeline
        /\ Len(call[t].delivery_points) >= 2

(***************************************************************************)
(* LiveSpec: Spec with the caller's thread always scheduled again.         *)
(***************************************************************************)
LiveWarehouses == [warehouse_id : {0}, lat : {0, Missing}, lng : {0}]

LiveConstraints ==
    {NoneVC, [capacity |-> 20, max_time |-> NoKey, speed |-> NoKey, service_time |-> NoKey,
              none |-> FALSE]}

LiveNext ==
    \/ Invoke(1, LiveWarehouses, PointLists({0, 2}, MaxPoints), LiveConstraints)
    \/ Step(1)

LiveSpec == Init /\ [][LiveNext]_vars /\ WF_vars(Step(1))

\* the loops of a call are bounded: the extraction has appended at most one
\* node per index before the end, the composition is at a position of the route
LoopsBounded ==
    \A t \in Callers :
        /\ call[t].pc = "extract" => Len(call[t].route) <= call[t].routing.n + 1
        /\ (call[t].pc = "compose" /\ call[t].route_idx < Len(call[t].route_indices)) =>
              call[t].i <= Len(call[t].route_indices[call[t].route_idx + 1])

\* every iteration of a loop advances it
LoopsAdvance ==
    \A t \in Callers :
        /\ (call[t].pc = "extract" /\ call'[t].pc = "extract" /\ call'[t] # call[t]) =>
              Len(call'[t].route) = Len(call[t].route) + 1
        /\ (/\ call[t].pc = "compose" /\ call'[t].pc = "compose" /\ call'[t] # call[t]
            /\ call'[t].route_idx = call[t].route_idx) =>
              call'[t].i = call[t].i + 1

\* C10: every call that has entered optimize_routes returns a result; the
\* extraction loop and the composition loop advance at every iteration and
\* are bounded by the number of nodes.
C10_Terminates ==
    /\ \A t \in Callers : (call[t].pc = "called") ~> Done(t)
    /\ \A t \in Callers : (call[t].pc = "extract") ~> (call[t].pc = "compose")
    /\ []LoopsBounded
    /\ [][LoopsAdvance]_vars

C10_Witness ==
    \E t \in Callers :
        /\ call[t].pc = "extract"
        /\ IsEnd(call[t].index, call[t].routing.n)
        /\ call[t].routing.n = MaxPoints
        /\ Len(call[t].route) = MaxPoints + 1

(***************************************************************************)
(* ConcSpec: two callers on the same service, their calls interleaved      *)
(* statement by statement; each passes a complete vehicle_constraints.     *)
(***************************************************************************)
ConcWarehouses == [warehouse_id : {0}, lat : {0}, lng : {0}]

ConcConstraints ==
    {[capacity |-> DefaultCapacity, max_time |-> DefaultMaxRouteTime,
      speed |-> DefaultSpeed, service_time |-> DefaultServiceTime, none |-> FALSE],
     [capacity |-> 20, max_time |-> 10, speed |-> 25, service_time |-> DefaultServiceTime,
      none |-> FALSE]}

ConcNext ==
    \E t \in Callers :
        \/ Invoke(t, ConcWarehouses, PointLists({0, 1}, 1), ConcConstraints)
        \/ Step(t)

ConcSpec == Init /\ [][ConcNext]_vars

\* C5: a call given a complete vehicle_constraints builds its routing model
\* with its own capacity and maximum route time, and its routes' times,
\* arrivals and utilization come from its own speed and capacity.
C5_OwnConstraintsOnly ==
    \A t \in Callers :
        LET f == call[t]
            vc == f.vehicle_constraints
        IN  /\ f.pc = "solve" =>
                  /\ DimensionCapacity(f.routing, "Capacity") = vc.capacity
                  /\ DimensionCapacity(f.routing, "Time") = vc.max_time
            /\ Succeeded(t) =>
                  \A r \in 1..Len(f.result.routes) :
                      LET route == f.result.routes[r]
                      IN  /\ route.estimated_time =
                                 RoundDiv(route.total_distance * 600, vc.speed)
                          /\ route.utilization =
                                 Min(10000, (route.total_demand * 10000) \div vc.capacity)
                          /\ route.stops[2].estimated_arrival =
                                 TravelSeconds(
                                     IntOf(_calculate_distance(
                                         route.stops[1].lat, route.stops[1].lng,
                                         route.stops[2].lat, route.stops[2].lng)),
                                     vc.speed)
                                 + ServiceSeconds(DefaultServiceTime)

(***************************************************************************)
(* Properties of the routes, under Spec.                                   *)
(***************************************************************************)
Finite(x) == x \notin {Missing, NaN, Inf}

\* every location of the call has both coordinates, and they are finite
WellFormed(f) ==
    /\ Finite(f.warehouse_data.lat) /\ Finite(f.warehouse_data.lng)
    /\ \A k \in 1..Len(f.delivery_points) :
           Finite(f.delivery_points[k].lat) /\ Finite(f.delivery_points[k].lng)

TotalDemand(delivery_points) ==
    SumSeq([k \in 1..Len(delivery_points) |-> delivery_points[k].demand_qty])

\* C11: a call with a depot and delivery points whose combined demand is at
\* most the vehicle capacity (the maximum route time being the default one,
\* which no tour of the model comes near) returns success with exactly one
\* route, and that route has every delivery point as a stop exactly once.
C11_OneRouteWithinCapacity ==
    \A t \in Callers :
        LET f == call[t]
            n == Len(f.delivery_points)
        IN  (/\ Done(t)
             /\ n >= 1
             /\ WellFormed(f)
             /\ max_route_time = DefaultMaxRouteTime
             /\ TotalDemand(f.delivery_points) <= vehicle_capacity)
                => /\ f.result.status = "success"
                   /\ Len(f.result.routes) = 1
                   /\ \A k \in 1..n :
                          Cardinality(StopsOfPoint(f.result, f.delivery_points, k)) = 1
                   /\ Cardinality(DeliveryStops(f.result)) = n

NonFinite(x) == x \in {NaN, Inf}

\* C13: a call in which some location's latitude or longitude is NaN or
\* infinite ends with an error result, never with a success result.
C13_NonFiniteCoordinateIsError ==
    \A t \in Callers :
        LET f == call[t]
        IN  (/\ Done(t)
             /\ \/ NonFinite(f.warehouse_data.lat) \/ NonFinite(f.warehouse_data.lng)
                \/ \E k \in 1..Len(f.delivery_points) :
                       \/ NonFinite(f.delivery_points[k].lat)
                       \/ NonFinite(f.delivery_points[k].lng))
                => f.result.status = "error"

\* the matrix entry between two stops of a route
EdgeMiles(a, b) == IntOf(_calculate_distance(a.lat, a.lng, b.lat, b.lng))

\* C14: when vehicle_constraints is supplied, each field it holds (capacity,
\* maximum route time, average speed, service time per stop) is the value
\* the call builds its routing model with and computes its routes' times,
\* arrival times and utilization from.
C14_SuppliedConstraintsUsed ==
    \A t \in Callers :
        LET f == call[t]
            vc == f.vehicle_constraints
            capacity == Get(vc.capacity, vehicle_capacity)
            max_time == Get(vc.max_time, max_route_time)
            speed == Get(vc.speed, average_speed)
            service_time == Get(vc.service_time, service_time_per_stop)
        IN  (~vc.none /\ WellFormed(f)) =>
              /\ f.pc = "solve" =>
                    /\ DimensionCapacity(f.routing, "Capacity") = capacity
                    /\ DimensionCapacity(f.routing, "Time") = max_time
              /\ Succeeded(t) =>
                    \A r \in 1..Len(f.result.routes) :
                        LET route == f.result.routes[r]
                            stops == route.stops
                        IN  /\ route.estimated_time =
                                   RoundDiv(route.total_distance * 600, speed)
                            /\ route.utilization =
                                   Min(10000, (route.total_demand * 10000) \div capacity)
                            /\ \A k \in 1..(Len(stops) - 1) :
                                   stops[k + 1].estimated_arrival =
                                       stops[k].estimated_arrival
                                       + TravelSeconds(EdgeMiles(stops[k], stops[k + 1]), speed)
                                       + ServiceSeconds(service_time)

\* travel time over the edges of a route's stops plus the service time at
\* its delivery stops, in seconds
RouteSeconds(stops, speed, service_time) ==
    SumSeq([k \in 1..(Len(stops) - 1) |->
               TravelSeconds(EdgeMiles(stops[k], stops[k + 1]), speed)])
    + ServiceSeconds(service_time)
        * Cardinality({k \in 1..Len(stops) : stops[k].type = "delivery"})

\* C15: on every route of a success result, the travel time of its edges at
\* the average speed plus the service time at its delivery stops is at most
\* the maximum route time (minutes) in force.
C15_RouteTimeWithinMaximum ==
    \A t \in Callers :
        (Succeeded(t) /\ WellFormed(call[t])) =>
            \A r \in 1..Len(call[t].result.routes) :
                RouteSeconds(call[t].result.routes[r].stops, average_speed,
                             service_time_per_stop)
                    <= max_route_time * 60

\* C16: on every route of a success result, a stop's arrival time is the
\* previous stop's arrival time plus the travel time of the edge between
\* them plus the service time at the previous stop, where no service time is
\* charged at the depot the route starts from: the first delivery stop's
\* arrival time is the start time plus travel time only.
C16_ArrivalTimes ==
    \A t \in Callers :
        (Succeeded(t) /\ WellFormed(call[t])) =>
            \A r \in 1..Len(call[t].result.routes) :
                LET stops == call[t].result.routes[r].stops
                IN  \A k \in 1..(Len(stops) - 1) :
                        stops[k + 1].estimated_arrival =
                            stops[k].estimated_arrival
                            + TravelSeconds(EdgeMiles(stops[k], stops[k + 1]), average_speed)
                            + (IF k = 1 THEN 0 ELSE ServiceSeconds(service_time_per_stop))

\* sum of the matrix distances of the first `edges` edges of a route's stops
EdgeSum(stops, edges) ==
    SumSeq([k \in 1..edges |-> EdgeMiles(stops[k], stops[k + 1])])

\* position of the last delivery stop of a route
LastDelivery(stops) ==
    CHOOSE k \in 1..Len(stops) :
        /\ stops[k].type = "delivery"
        /\ \A j \in (k + 1)..Len(stops) : stops[j].type # "delivery"

\* C17 as stated: a route's total_distance is the sum of the edges from the
\* depot through its delivery stops in visiting order, without a closing edge
\* from the last delivery stop back to the depot.
C17_OneWayDistance ==
    \A t \in Callers :
        (Succeeded(t) /\ WellFormed(call[t])) =>
            \A r \in 1..Len(call[t].result.routes) :
                LET route == call[t].result.routes[r]
                IN  route.total_distance =
                        EdgeSum(route.stops, LastDelivery(route.stops) - 1)

\* C17: a route's stops begin and end with the depot, and its total_distance
\* is the sum of the edges between consecutive stops, the closing edge from
\* the last delivery stop back to the depot included; estimated_time and
\* estimated_cost are derived from that sum.
C17_RoundTripDistance ==
    \A t \in Callers :
        Succeeded(t) =>
            \A r \in 1..Len(call[t].result.routes) :
                LET route == call[t].result.routes[r]
                    stops == route.stops
                IN  /\ stops[1].type = "warehouse"
                    /\ stops[Len(stops)].type = "warehouse"
                    /\ LastDelivery(stops) = Len(stops) - 1
                    /\ route.total_distance = EdgeSum(stops, Len(stops) - 1)
                    /\ route.estimated_time =
                           RoundDiv(EdgeSum(stops, Len(stops) - 1) * 600, average_speed)
                    /\ route.estimated_cost = EdgeSum(stops, Len(stops) - 1) * CentsPerMile

C17_Witness ==
    \E t \in Callers :
        /\ Succeeded(t)
        /\ WellFormed(call[t])
        /\ \E r \in 1..Len(call[t].result.routes) :
               LET stops == call[t].result.routes[r].stops
               IN  /\ Len(stops) = MaxPoints + 2
                   /\ EdgeMiles(stops[Len(stops) - 1], stops[Len(stops)]) > 0

\* C18: every route's efficiency_score and the result's overall
\* efficiency_score lie between 0 and 100 (0 and 1000 tenths), with the
\* spacing bonus added too.
C18_ScoresInRange ==
    \A t \in Callers :
        /\ \A r \in 1..Len(call[t].routes) :
               call[t].routes[r].efficiency_score \in 0..1000
        /\ Succeeded(t) =>
               /\ call[t].result.efficiency_score \in 0..1000
               /\ \A r \in 1..Len(call[t].result.routes) :
                      call[t].result.routes[r].efficiency_score \in 0..1000

\* a route within the ideal distance per stop that also earns the bonus
C18_Witness ==
    \E t \in Callers :
        /\ Succeeded(t)
        /\ \E r \in 1..Len(call[t].result.routes) :
               LET route == call[t].result.routes[r]
               IN  /\ route.total_distance <= IdealDistance * (Len(route.stops) - 1)
                   /\ SpacingBonus(route.stops) > 0
                   /\ route.efficiency_score = 1000

\* number of delivery stops of a route
Deliveries(route) ==
    Cardinality({k \in 1..Len(route.stops) : route.stops[k].type = "delivery"})

\* the mean of the routes' scores weighted by their delivery stops
DeliveryWeightedMean(routes) ==
    LET total_score == SumSeq([k \in 1..Len(routes) |->
                                  routes[k].efficiency_score * Deliveries(routes[k])])
        total_weight == SumSeq([k \in 1..Len(routes) |-> Deliveries(routes[k])])
    IN  IF routes = <<>> \/ total_weight = 0 THEN 0
        ELSE RoundDiv(total_score, total_weight)

C20_PointAtDepot ==
    \A t \in Callers :
        LET f == call[t]
        IN  (/\ Done(t)
             /\ f.vehicle_constraints.none
             /\ WellFormed(f)
             /\ Len(f.delivery_points) = 1
             /\ f.delivery_points[1].lat = f.warehouse_data.lat
             /\ f.delivery_points[1].lng = f.warehouse_data.lng)
                => /\ f.result.status = "success"
                   /\ Len(f.result.routes) = 1
                   /\ f.result.total_routes = 1
                   /\ f.result.routes[1].total_distance = 0
                   /\ f.result.total_distance = 0
                   /\ f.result.routes[1].efficiency_score = 1000
                   /\ f.result.efficiency_score = 1000

C20_Witness ==
    \E t \in Callers :
        /\ Succeeded(t)
        /\ call[t].vehicle_constraints.none
        /\ WellFormed(call[t])
        /\ Len(call[t].delivery_points) = 1
        /\ call[t].delivery_points[1].lat = call[t].warehouse_data.lat
        /\ call[t].delivery_points[1].lng = call[t].warehouse_data.lng
        /\ Service = [vehicle_capacity |-> DefaultCapacity,
                      max_route_time |-> DefaultMaxRouteTime,
                      average_speed |-> DefaultSpeed,
                      service_time_per_stop |-> DefaultServiceTime]

\* the call holds a distance matrix
HasMatrix(f) == f.pc \in {"model", "solve", "extract", "compose"}

SameCoordinates(a, b) == a.lat = b.lat /\ a.lng = b.lng

\* C21: in the distance matrix built for a call, the entry of a node with
\* itself is 0, and so is the entry between any two locations that have the
\* same coordinates.
C21_ZeroDistanceToSelf ==
    \A t \in Callers :
        LET f == call[t]
            locations == Locations(f.warehouse_data, f.delivery_points)
        IN  HasMatrix(f) =>
                /\ DOMAIN f.distance_matrix = DOMAIN locations
                /\ \A i \in DOMAIN locations : f.distance_matrix[i][i] = 0
                /\ \A i, j \in DOMAIN locations :
                       SameCoordinates(locations[i], locations[j])
                           => f.distance_matrix[i][j] = 0

\* two distinct nodes at the same place, and a third one elsewhere
C21_Witness ==
    \E t \in Callers :
        LET f == call[t]
            locations == Locations(f.warehouse_data, f.delivery_points)
        IN  /\ HasMatrix(f)
            /\ WellFormed(f)
            /\ \E i, j, k \in DOMAIN locations :
                   /\ i # j
                   /\ SameCoordinates(locations[i], locations[j])
                   /\ f.distance_matrix[i][k] > 0

\* C22: the distance matrix built for a call is symmetric, also on the pairs
\* whose distance computation fell back to 0.0 on a math domain error.
C22_SymmetricMatrix ==
    \A t \in Callers :
        LET f == call[t]
        IN  HasMatrix(f) =>
                \A i, j \in DOMAIN f.distance_matrix :
                    f.distance_matrix[i][j] = f.distance_matrix[j][i]

\* a matrix with a pair that fell back to 0.0 and a pair at a distance
C22_Witness ==
    \E t \in Callers :
        LET f == call[t]
            locations == Locations(f.warehouse_data, f.delivery_points)
        IN  /\ HasMatrix(f)
            /\ \E i, j \in DOMAIN locations :
                   /\ i # j
                   /\ MathDomainError(locations[i].lat, locations[i].lng,
                                      locations[j].lat, locations[j].lng)
            /\ \E i, j \in DOMAIN locations : f.distance_matrix[i][j] > 0

\* the stop lists a call has composed: the one under construction, the
\* routes already built, and the routes of its success result
ComposedStops(f) ==
    {f.stops}
    \cup {f.routes[r].stops : r \in 1..Len(f.routes)}
    \cup (IF f.result.status = "success"
          THEN {f.result.routes[r].stops : r \in 1..Len(f.result.routes)}
          ELSE {})

\* C23: in every composed route the first stop is the depot, with order 0,
\* and the k-th stop of the list has order k - 1: the orders are 0, 1, 2, ...
\* in list order, without gap or repeat.
C23_DenseOrder ==
    \A t \in Callers :
        \A stops \in ComposedStops(call[t]) :
            /\ stops # <<>> =>
                   stops[1].type = "warehouse" /\ stops[1].order = 0
            /\ \A k \in 1..Len(stops) : stops[k].order = k - 1

C23_Witness ==
    \E t \in Callers :
        /\ Succeeded(t)
        /\ \E r \in 1..Len(call[t].result.routes) :
               Len(call[t].result.routes[r].stops) = MaxPoints + 2

ScoreWithDivisor(stops, total_distance, divisor) ==
    LET base == IF total_distance <= IdealDistance * divisor
                THEN 1000
                ELSE Max(0, RoundDiv(Max(0, 1500 * divisor - 50 * total_distance), divisor))
    IN  Min(1000, Max(0, base + SpacingBonus(stops)))

\* C25: a route's num_stops is the number of its stops of type 'delivery'
\* (the warehouse is not counted), and the route's score divides the
\* distance by that same count.
C25_NumStopsCountsDeliveries ==
    \A t \in Callers :
        (Succeeded(t) /\ WellFormed(call[t])) =>
            \A r \in 1..Len(call[t].result.routes) :
                LET route == call[t].result.routes[r]
                IN  /\ route.num_stops = Deliveries(route)
                    /\ route.efficiency_score =
                           ScoreWithDivisor(route.stops, route.total_distance,
                                            Deliveries(route))

\* every tour of the call's instance is longer than `bound` miles
EveryTourLonger(f, bound) ==
    LET n == Len(f.delivery_points)
        matrix == _create_distance_matrix(Locations(f.warehouse_data, f.delivery_points))
    IN  \A p \in Tours(n) : TourDistance(p, n, matrix) > bound

\* C26: every route of a success result has a summed edge distance of at
\* most min(vehicle_capacity, max_route_time) miles, and a call whose every
\* tour is longer than that returns the error 'No solution found', whatever
\* the demands are.
C26_DistanceBoundsFeasibility ==
    \A t \in Callers :
        LET f == call[t]
            bound == Min(vehicle_capacity, max_route_time)
        IN  /\ Succeeded(t) =>
                   \A r \in 1..Len(f.result.routes) :
                       /\ f.result.routes[r].total_distance <= bound
                       /\ EdgeSum(f.result.routes[r].stops,
                                  Len(f.result.routes[r].stops) - 1) <= bound
            /\ (/\ Done(t)
                /\ f.delivery_points # <<>>
                /\ ~MatrixRaises(Locations(f.warehouse_data, f.delivery_points))
                /\ EveryTourLonger(f, bound))
                   => f.result = ErrorResult("No solution found")

\* a call refused for its distance although its demand fits the capacity
C26_Witness ==
    \E t \in Callers :
        /\ Done(t)
        /\ call[t].result = ErrorResult("No solution found")
        /\ TotalDemand(call[t].delivery_points) <= vehicle_capacity
        /\ EveryTourLonger(call[t], Min(vehicle_capacity, max_route_time))

\* C28: within every composed route the estimated arrival times do not
\* decrease in stop order, and each stop after the first arrives at least
\* service_time_per_stop minutes after the stop before it.
C28_ArrivalsAdvance ==
    \A t \in Callers :
        \A stops \in ComposedStops(call[t]) :
            \A k \in 1..(Len(stops) - 1) :
                /\ stops[k + 1].estimated_arrival >= stops[k].estimated_arrival
                /\ stops[k + 1].estimated_arrival >=
                       stops[k].estimated_arrival + service_time_per_stop * 60

\* a route whose stops are all at the same place: only service time passes
C28_Witness ==
    \E t \in Callers :
        /\ Succeeded(t)
        /\ WellFormed(call[t])
        /\ \E r \in 1..Len(call[t].result.routes) :
               LET route == call[t].result.routes[r]
               IN  /\ Len(route.stops) = MaxPoints + 2
                   /\ route.total_distance = 0

\* C29: within every route of a success result the stop_id values are
\* pairwise distinct.
C29_DistinctStopIds ==
    \A t \in Callers :
        (Succeeded(t) /\ WellFormed(call[t])) =>
            \A r \in 1..Len(call[t].result.routes) :
                LET stops == call[t].result.routes[r].stops
                IN  \A j, k \in 1..Len(stops) :
                        j # k => stops[j].stop_id # stops[k].stop_id

(***************************************************************************)
(* RepeatSpec: two callers on the same service, one call at a time: a      *)
(* call begins only when no other call is running.  A returned call keeps  *)
(* its arguments and its result until the caller collects it, so a call    *)
(* can be compared with a later one.                                       *)
(***************************************************************************)
RepeatWarehouses == [warehouse_id : {0}, lat : {0}, lng : {0}]

RepeatConstraints ==
    {NoneVC, [capacity |-> 20, max_time |-> NoKey, speed |-> NoKey, service_time |-> NoKey,
              none |-> FALSE]}

NoCallRunning == \A u \in Callers : call[u].pc \in {"idle", "done"}

RepeatNext ==
    \E t \in Callers :
        \/ /\ NoCallRunning
           /\ Invoke(t, RepeatWarehouses, PointLists({0, 5}, 1), RepeatConstraints)
        \/ Step(t)

RepeatSpec == Init /\ [][RepeatNext]_vars

SameArguments(f, g) ==
    /\ f.warehouse_data = g.warehouse_data
    /\ f.delivery_points = g.delivery_points
    /\ f.vehicle_constraints = g.vehicle_constraints

\* C12: two calls with the same warehouse, the same delivery points and the
\* same constraints both return routes, of the same total distance, whatever
\* calls were made on the service before or between them.
C12_SameCallSameDistance ==
    \A t, u \in Callers :
        (/\ Done(t) /\ Done(u)
         /\ SameArguments(call[t], call[u])
         /\ call[t].result.status = "success")
            => /\ call[u].result.status = "success"
               /\ call[u].result.total_distance = call[t].result.total_distance

(***************************************************************************)
(* WrapSpec: caller 1 goes through optimize_real_routes, which passes no   *)
(* vehicle_constraints and enhances a success result before returning it;  *)
(* caller 2 calls optimize_routes on the same routing service with a       *)
(* complete vehicle_constraints.  The two run interleaved.                 *)
(***************************************************************************)
WrapNext ==
    \/ Invoke(1, ConcWarehouses, PointLists({0, 1}, 1), {NoneVC})
    \/ ~AwaitsEnhancement(1) /\ Step(1)
    \/ Enhance(1)
    \/ Invoke(2, ConcWarehouses, PointLists({0, 1}, 1), ConcConstraints)
    \/ Step(2)

WrapSpec == Init /\ [][WrapNext]_vars

\* C27: the constraints_applied block attached to a success result holds
\* the vehicle capacity, maximum route time and service time per stop that
\* the same call read from the routing service to solve and compose.
C27_ConstraintsAppliedAreThoseUsed ==
    \A t \in Callers :
        (call[t].pc = "done" /\ "ai_enhancement" \in DOMAIN call[t].result) =>
            call[t].result.ai_enhancement.constraints_applied = call[t].built_with

(***************************************************************************)
(* The stock endpoints of routers/optimization.py.  They share the one     *)
(* module-level optimization_service.  Each handler is an async function   *)
(* without an await, so a request runs from its first line to its response *)
(* without another request in between: one action per request.             *)
(*                                                                         *)
(* Units: sales_data is the sequence of units_sold of one warehouse and    *)
(* SKU, one record per date; the Z-score multiplier is in hundredths, the  *)
(* coefficient of variation in thousandths, a service level in percent.    *)
(* The sales data below are chosen so that the mean and the sample         *)
(* standard deviation of the daily demand are whole numbers.               *)
(***************************************************************************)
Calm == <<22, 18, 22, 18, 22, 18, 20>>       \* mean 20, std 2
Steady == <<30, 10, 30, 10, 30, 10, 20>>     \* mean 20, std 10
Volatile == <<16, 4, 16, 4, 16, 4, 10>>      \* mean 10, std 6
Short == <<30, 10, 20>>                      \* fewer than 7 records

SalesData == {<<>>, Short, Calm, Steady, Volatile}

\* the target_service_level values a request passes (ge=0.8, le=0.99)
ServiceLevels == {80, 90, 95, 97, 99}

Scenarios == {"demand_increase", "demand_decrease", "lead_time_change"}

ChangePercentages == {50}

\* the square root of x, rounded down
ISqrt(x) == CHOOSE r \in 0..x : r * r <= x /\ (r + 1) * (r + 1) > x

\* round(num * sqrt(lead_time) / (2 * halfden)), a half going to the even side
RoundRoot(num, halfden, lead_time) ==
    LET x2 == num * num * lead_time
        below(n) == ((2 * n - 1) * halfden) * ((2 * n - 1) * halfden)
        above(n) == ((2 * n + 1) * halfden) * ((2 * n + 1) * halfden)
        up == CHOOSE n \in 0..((2 * num) \div halfden + 1) :
                  /\ n = 0 \/ below(n) <= x2
                  /\ x2 < above(n)
    IN IF up > 0 /\ below(up) = x2 /\ up % 2 = 1 THEN up - 1 ELSE up

\* round(a / b), a half going to the even side
RoundHalfEven(a, b) ==
    LET q == a \div b
    IN IF 2 * (a % b) > b \/ (2 * (a % b) = b /\ q % 2 = 1) THEN q + 1 ELSE q

(***************************************************************************)
(* _get_z_score: the Z-score of the table's service level closest to the   *)
(* given one; of two equally close levels min() keeps the first.           *)
(***************************************************************************)
z_scores == <<[level |-> 80, z |-> 84], [level |-> 85, z |-> 104],
              [level |-> 90, z |-> 128], [level |-> 95, z |-> 165],
              [level |-> 99, z |-> 233]>>

_get_z_score(service_level) ==
    LET away(k) == Abs(z_scores[k].level - service_level)
        closest == CHOOSE k \in DOMAIN z_scores :
                       \A j \in DOMAIN z_scores :
                           away(k) < away(j) \/ (away(k) = away(j) /\ k <= j)
    IN z_scores[closest].z

(***************************************************************************)
(* _apply_scenario_to_data                                                 *)
(***************************************************************************)
_apply_scenario_to_data(sales_data, scenario, change_percentage) ==
    [k \in DOMAIN sales_data |->
        IF scenario = "demand_increase"
        THEN (sales_data[k] * (100 + change_percentage)) \div 100
        ELSE IF scenario = "demand_decrease"
        THEN (sales_data[k] * (100 - change_percentage)) \div 100
        ELSE sales_data[k]]

(***************************************************************************)
(* _calculate_demand_statistics, the three statistics the safety stock and *)
(* the lead time read.                                                     *)
(***************************************************************************)
_calculate_demand_statistics(daily_demand) ==
    LET n == Len(daily_demand)
        mean_demand == SumSeq(daily_demand) \div n
        squares == [k \in DOMAIN daily_demand |->
                       (daily_demand[k] - mean_demand) * (daily_demand[k] - mean_demand)]
        std_demand == ISqrt(SumSeq(squares) \div (n - 1))
        cv == IF mean_demand > 0 THEN RoundHalfEven(1000 * std_demand, mean_demand) ELSE 0
    IN [mean_daily_demand |-> mean_demand,
        std_daily_demand |-> std_demand,
        coefficient_of_variation |-> cv]

(***************************************************************************)
(* _estimate_lead_time: a base by the volatility of the demand, plus       *)
(* np.random.randint(-1, 3), kept between 1 and 14 days.  The set of the   *)
(* lead times one call can return.                                         *)
(***************************************************************************)
_estimate_lead_time(demand_stats) ==
    LET cv == demand_stats.coefficient_of_variation
        base_lead_time == IF cv > 500 THEN 7 ELSE IF cv > 300 THEN 5 ELSE 3
    IN {Max(1, Min(14, base_lead_time + random)) : random \in (0 - 1)..2}

(***************************************************************************)
(* _calculate_safety_stock: Z * sigma * sqrt(lead time), times 1.2 when    *)
(* the coefficient of variation is above 0.5 (the elif cv > 0.8 after it   *)
(* is never taken), at least max(mean * 0.5, 5), rounded, at least 1.      *)
(* `multiplier` is self.safety_stock_multiplier as the call reads it.      *)
(***************************************************************************)
_calculate_safety_stock(multiplier, demand_stats, lead_time_days) ==
    LET mean_demand == demand_stats.mean_daily_demand
        std_demand == demand_stats.std_daily_demand
        cv == demand_stats.coefficient_of_variation
        safety_stock == IF cv > 500
                        THEN RoundRoot(3 * multiplier * std_demand, 125, lead_time_days)
                        ELSE RoundRoot(multiplier * std_demand, 50, lead_time_days)
        min_safety_stock == Max(RoundHalfEven(mean_demand, 2), 5)
    IN Max(1, Max(safety_stock, min_safety_stock))

(***************************************************************************)
(* calculate_stock_recommendations, as far as the safety stock: the        *)
(* responses it can lead to for `sales_data`, the lead time being random.  *)
(***************************************************************************)
InsufficientData(sales_data) == Len(sales_data) < 7

Recommendations(endpoint, status_code, multiplier, sales_data) ==
    LET demand_stats == _calculate_demand_statistics(sales_data)
    IN {[endpoint |-> endpoint, status_code |-> status_code, detail |-> "",
         lead_time_days |-> lead_time_days,
         demand_statistics |-> demand_stats,
         safety_stock |-> _calculate_safety_stock(multiplier, demand_stats,
                                                  lead_time_days)] :
            lead_time_days \in _estimate_lead_time(demand_stats)}

ErrorResponse(endpoint, status_code, detail) ==
    [NoResponse EXCEPT !.endpoint = endpoint, !.status_code = status_code,
                       !.detail = detail]

RoutingUnchanged ==
    UNCHANGED <<vehicle_capacity, max_route_time, average_speed, service_time_per_stop,
                call>>

(***************************************************************************)
(* POST /stock/optimize: optimize_stock_levels                             *)
(***************************************************************************)
optimize_stock_levels(target_service_level, sales_data) ==
    /\ RoutingUnchanged
    /\ IF sales_data = <<>>
       THEN /\ UNCHANGED safety_stock_multiplier
            /\ stock_response' =
                   ErrorResponse("/stock/optimize", 400, "Sales data is required")
       ELSE /\ safety_stock_multiplier' = _get_z_score(target_service_level)
            /\ IF InsufficientData(sales_data)
               THEN stock_response' =
                        ErrorResponse("/stock/optimize", 400,
                                      "Insufficient data for stock optimization")
               \* the recommendation has no 'data' key to override
               ELSE \E r \in Recommendations("/stock/optimize", 500,
                                                  safety_stock_multiplier', sales_data) :
                        stock_response' =
                            [r EXCEPT !.detail = "Internal server error: 'data'"]

(***************************************************************************)
(* POST /stock/recommendations/batch: get_batch_stock_recommendations,     *)
(* for sales data of one warehouse and SKU.  optimize_all_warehouses puts  *)
(* an error result into the results like any other.                        *)
(***************************************************************************)
get_batch_stock_recommendations(sales_data) ==
    /\ RoutingUnchanged
    /\ UNCHANGED safety_stock_multiplier
    /\ IF sales_data = <<>>
       THEN stock_response' =
                ErrorResponse("/stock/recommendations/batch", 400,
                              "Sales data is required")
       ELSE IF InsufficientData(sales_data)
       THEN stock_response' =
                ErrorResponse("/stock/recommendations/batch", 200,
                              "Insufficient data for stock optimization")
       ELSE stock_response' \in
                Recommendations("/stock/recommendations/batch", 200,
                                safety_stock_multiplier, sales_data)

(***************************************************************************)
(* POST /stock/what-if: what_if_analysis                                   *)
(***************************************************************************)
what_if_analysis(scenario, change_percentage, sales_data) ==
    LET modified_sales_data ==
            _apply_scenario_to_data(sales_data, scenario, change_percentage)
    IN /\ RoutingUnchanged
       /\ UNCHANGED safety_stock_multiplier
       /\ IF sales_data = <<>>
          THEN stock_response' =
                   ErrorResponse("/stock/what-if", 400, "Sales data is required")
          ELSE IF InsufficientData(modified_sales_data)
          THEN stock_response' =
                   ErrorResponse("/stock/what-if", 400,
                                 "Insufficient data for stock optimization")
          ELSE stock_response' \in
                   Recommendations("/stock/what-if", 200, safety_stock_multiplier,
                                   modified_sales_data)

(***************************************************************************)
(* StockSpec: requests to the three stock endpoints, in any order.         *)
(***************************************************************************)
StockNext ==
    \/ \E target_service_level \in ServiceLevels, sales_data \in SalesData :
           optimize_stock_levels(target_service_level, sales_data)
    \/ \E sales_data \in SalesData : get_batch_stock_recommendations(sales_data)
    \/ \E scenario \in Scenarios, change_percentage \in ChangePercentages,
          sales_data \in SalesData :
           what_if_analysis(scenario, change_percentage, sales_data)

StockSpec == Init /\ [][StockNext]_vars

\* a batch or what-if request was answered with a recommendation
Recommended ==
    /\ stock_response.endpoint \in {"/stock/recommendations/batch", "/stock/what-if"}
    /\ stock_response.safety_stock # NoKey

\* C30: the safety stock in the answer to a /stock/recommendations/batch or
\* /stock/what-if request is the one computed with the default multiplier 1.5
\* from the request's demand statistics and lead time, whatever
\* /stock/optimize requests were answered before.
C30_BatchAndWhatIfUseDefaultMultiplier ==
    Recommended =>
        stock_response.safety_stock =
            _calculate_safety_stock(DefaultSafetyStockMultiplier,
                                    stock_response.demand_statistics,
                                    stock_response.lead_time_days)

====
